---------------------------- MODULE Spec2Model ----------------------------
(***************************************************************************)
(* Cellular-automaton simulators of PHYS_481, Assignment 3:                *)
(*   game_of_life.py  GameOfLife, the 2-D toroidal Grid Automaton          *)
(*   steppers.py      stepper0..stepper4, five variants of one generation  *)
(*   random_ca.py     cellularAutomaton, the 1-D Line Automaton, and the   *)
(*                    binaryRep rule decoder                               *)
(*                                                                         *)
(* The specifications share the variables:                                 *)
(*   Spec      the life of one GameOfLife object                           *)
(*   SpecStep  the five steppers applied to one input grid                 *)
(*   SpecArr   a caller's array handed to the steppers and to GameOfLife   *)
(*   SpecSeq   one cellularAutomaton object: construction, steps, plot     *)
(*   SpecCA    SpecSeq and direct calls of cellular_step                   *)
(*   SpecRule  cellular_step over all 256 rule numbers                     *)
(*   SpecBin   binaryRep over numbers and bit widths                       *)
(*                                                                         *)
(* numpy arrays are functions: a grid of shape (nx, ny) is a function on   *)
(* Cells(nx, ny); a 1-D array of n cells is a function on 0..n-1.  Boolean *)
(* cells are the numbers 0 and 1, as numpy sums them.                      *)
(***************************************************************************)
EXTENDS Integers, Sequences, FiniteSets, TLC

VARIABLES
    \* ---- GameOfLife object (game_of_life.py) ----
    life,       \* "none" before construction, "live", "failed" (constructor raised)
    nx, ny,     \* self.nx, self.ny
    grid,       \* self.grid
    step_num,   \* self.step_num
    step_x,     \* self.step_x : 8 index arrays of shape (nx, ny)
    step_y,     \* self.step_y
    shares,     \* self.grid is the very array the caller passed as grid=
    passed_written, \* that array of the caller has been changed since
    \* ---- cellularAutomaton object (random_ca.py) ----
    ca,         \* "none", "live", "failed"
    ncells,     \* self.ncells
    nsteps,     \* self.nsteps
    rule_num,   \* self.rule_num: a number k + h/2, kept as <<k, h>>, h in {0,1}
    cells,      \* self.cells
    seq,        \* self.seq : row index 0..nsteps-1 -> generation
    \* ---- the last call ----
    op,         \* name of the last operation called
    arg,        \* its argument(s)
    ret,        \* what it returned ("raised" when it raised)
    err,        \* the exception it raised, "" when it returned
    ret_same,   \* the array returned is the very array handed to the call
    \* ---- history variables (not program state) ----
    calls,      \* number of step() calls made on the GameOfLife object
    gens        \* every generation the Line Automaton has held, oldest first

lifeVars == <<life, nx, ny, grid, step_num, step_x, step_y, shares, passed_written>>
caVars   == <<ca, ncells, nsteps, rule_num, cells, seq>>
callVars == <<op, arg, ret, err, ret_same>>
histVars == <<calls, gens>>
vars     == <<lifeVars, caVars, callVars, histVars>>

----------------------------------------------------------------------------
(* Bounds *)

MaxNx     == 3    \* grid widths 0..MaxNx
MaxNy     == 3    \* grid heights 0..MaxNy
MaxArea   == 9    \* grids of at most MaxArea cells
MaxNSteps == 2    \* step(n) / steps(n) with n in 0..MaxNSteps
MaxCalls  == 3    \* step() calls per GameOfLife object
MaxSeed   == 7    \* outcomes of the random draw of randomize
MaxCells  == 4    \* Line Automaton: ncells in 0..MaxCells
MaxRows   == 3    \* Line Automaton: nsteps (rows of seq) in 0..MaxRows
MaxGens   == 3    \* Line Automaton: generations computed per object
MaxNum    == 256  \* binaryRep: numbers -1..MaxNum
MaxBits   == 8    \* binaryRep: bit widths 0..MaxBits

----------------------------------------------------------------------------
(* Arrays *)

Cells(w, h) == (0..(w - 1)) \X (0..(h - 1))

Grids(w, h) == [Cells(w, h) -> {0, 1}]

Shapes == {s \in (0..MaxNx) \X (0..MaxNy) : s[1] * s[2] <= MaxArea}

\* np.zeros([nx, ny])
zeros2(w, h) == [c \in Cells(w, h) |-> 0]

RECURSIVE SumTo(_, _)
\* f[1] + ... + f[n]
SumTo(f, n) == IF n = 0 THEN 0 ELSE f[n] + SumTo(f, n - 1)

----------------------------------------------------------------------------
(* GameOfLife *)

\* the 8 directions of __init__step, in the order of xx and yy
DX == <<1, -1, 0, 0, 1, -1, 1, -1>>
DY == <<0, 0, 1, -1, 1, -1, -1, 1>>

\* xx = np.array([x+1, x-1, ...]) % self.nx
init_step_x(w, h) == [d \in 1..8 |-> [c \in Cells(w, h) |-> (c[1] + DX[d]) % w]]

\* yy = np.array([y+0, y+0, ...]) % self.ny
init_step_y(w, h) == [d \in 1..8 |-> [c \in Cells(w, h) |-> (c[2] + DY[d]) % h]]

\* nnear = np.sum( grid[self.step_x, self.step_y], axis=0 )
nnear(g, sx, sy) ==
    [c \in DOMAIN g |-> SumTo([d \in 1..8 |-> g[<<sx[d][c], sy[d][c]>>]], 8)]

\* grid[(nnear < 2) | (nnear > 3)] = 0
kill(g, nn) == [c \in DOMAIN g |-> IF nn[c] < 2 \/ nn[c] > 3 THEN 0 ELSE g[c]]

\* grid[nnear == 3] = 1
revive(g, nn) == [c \in DOMAIN g |-> IF nn[c] = 3 THEN 1 ELSE g[c]]

RECURSIVE sweep(_, _, _, _)
\* the cells of todo updated one after the other, each from the grid as the
\* cells before it left it
sweep(g, sx, sy, todo) ==
    IF todo = {} THEN g
    ELSE LET c == CHOOSE t \in todo : TRUE
             n == SumTo([d \in 1..8 |-> g[<<sx[d][c], sy[d][c]>>]], 8)
             v == IF n < 2 \/ n > 3 THEN 0 ELSE IF n = 3 THEN 1 ELSE g[c]
         IN  sweep([g EXCEPT ![c] = v], sx, sy, todo \ {c})

\* step_body without the snapshot: cells updated in place, one by one
step_body_inplace(g, sx, sy) == sweep(g, sx, sy, DOMAIN g)

\* one pass of the body of the for loop of step
step_body(g, sx, sy) ==
    LET nn == nnear(g, sx, sy) IN revive(kill(g, nn), nn)

RECURSIVE step_loop(_, _, _, _)
\* for indx in range(nsteps): ...
step_loop(g, sx, sy, n) ==
    IF n <= 0 THEN g ELSE step_loop(step_body(g, sx, sy), sx, sy, n - 1)

\* the grid drawn by np.random.rand(nx, ny) > p, outcome number s: cell number
\* i (row-major) is alive iff digit i of s is 1
random_grid(w, h, s) ==
    [c \in Cells(w, h) |-> (s \div (2 ^ (c[1] * h + c[2]))) % 2]

\* GameOfLife(nx0, ny0): grid is None
Construct(nx0, ny0) ==
    /\ life = "none"
    /\ op' = "GameOfLife"
    /\ ret_same' = FALSE
    /\ arg' = <<nx0, ny0, "None">>
    /\ IF nx0 < 0 \/ ny0 < 0
       THEN \* np.zeros raises ValueError: negative dimensions are not allowed
            /\ life' = "failed"
            /\ err' = "ValueError"
            /\ ret' = "raised"
            /\ UNCHANGED <<nx, ny, grid, step_num, step_x, step_y>>
       ELSE /\ life' = "live"
            /\ err' = ""
            /\ ret' = "self"
            /\ nx' = nx0
            /\ ny' = ny0
            /\ grid' = zeros2(nx0, ny0)
            /\ step_num' = 0
            /\ step_x' = init_step_x(nx0, ny0)
            /\ step_y' = init_step_y(nx0, ny0)
    /\ shares' = FALSE
    /\ UNCHANGED passed_written
    /\ UNCHANGED <<caVars, histVars>>

\* GameOfLife(nx0, ny0, grid=g): the shape of g overrides nx0, ny0
ConstructGrid(nx0, ny0, w, h, g) ==
    /\ life = "none"
    /\ op' = "GameOfLife"
    /\ ret_same' = FALSE
    /\ arg' = <<nx0, ny0, "grid">>
    /\ life' = "live"
    /\ err' = ""
    /\ ret' = "self"
    /\ nx' = w
    /\ ny' = h
    /\ grid' = g
    /\ step_num' = 0
    /\ step_x' = init_step_x(w, h)
    /\ step_y' = init_step_y(w, h)
    /\ shares' = TRUE
    /\ passed_written' = FALSE
    /\ UNCHANGED <<caVars, histVars>>

\* step(n) counting one step per generation advanced
step_per_generation(n) ==
    /\ life = "live"
    /\ calls < MaxCalls
    /\ op' = "step"
    /\ ret_same' = FALSE
    /\ arg' = n
    /\ err' = ""
    /\ ret' = "self"
    /\ step_num' = step_num + n
    /\ grid' = step_loop(grid, step_x, step_y, n)
    /\ calls' = calls + 1
    /\ shares' = FALSE
    /\ UNCHANGED <<life, nx, ny, step_x, step_y, passed_written, caVars, gens>>

\* step(n) working on self.grid itself instead of a copy
step_in_place(n) ==
    /\ life = "live"
    /\ calls < MaxCalls
    /\ op' = "step"
    /\ ret_same' = FALSE
    /\ arg' = n
    /\ err' = ""
    /\ ret' = "self"
    /\ step_num' = step_num + 1
    /\ grid' = step_loop(grid, step_x, step_y, n)
    /\ calls' = calls + 1
    /\ passed_written' = (passed_written \/ (shares /\ grid' # grid))
    /\ UNCHANGED <<life, nx, ny, step_x, step_y, shares, caVars, gens>>

\* step(n)
step(n) ==
    /\ life = "live"
    /\ calls < MaxCalls
    /\ op' = "step"
    /\ ret_same' = FALSE
    /\ arg' = n
    /\ err' = ""
    /\ ret' = "self"
    /\ step_num' = step_num + 1
    /\ grid' = step_loop(grid, step_x, step_y, n)
    /\ calls' = calls + 1
    /\ shares' = FALSE
    /\ UNCHANGED <<life, nx, ny, step_x, step_y, passed_written, caVars, gens>>

\* randomize(p), the random draw having outcome s
randomize(s) ==
    /\ life = "live"
    /\ op' = "randomize"
    /\ ret_same' = FALSE
    /\ arg' = s
    /\ err' = ""
    /\ ret' = "self"
    /\ grid' = random_grid(nx, ny, s)
    /\ shares' = FALSE
    /\ UNCHANGED <<life, nx, ny, step_num, step_x, step_y, passed_written, caVars, histVars>>

\* get_grid()
get_grid ==
    /\ life = "live"
    /\ op' = "get_grid"
    /\ ret_same' = FALSE
    /\ arg' = <<>>
    /\ err' = ""
    /\ ret' = grid
    /\ UNCHANGED <<lifeVars, caVars, histVars>>

\* plot(axes): draws self.grid, changes nothing
plot ==
    /\ life = "live"
    /\ op' = "plot"
    /\ ret_same' = FALSE
    /\ arg' = <<>>
    /\ err' = ""
    /\ ret' = "self"
    /\ UNCHANGED <<lifeVars, caVars, histVars>>

IdleCA ==
    /\ ca = "none"
    /\ ncells = 0
    /\ nsteps = 0
    /\ rule_num = <<0, 0>>
    /\ cells = <<>>
    /\ seq = <<>>
    /\ gens = <<>>

IdleLife ==
    /\ life = "none"
    /\ nx = 0
    /\ ny = 0
    /\ grid = <<>>
    /\ step_num = 0
    /\ step_x = <<>>
    /\ step_y = <<>>
    /\ shares = FALSE
    /\ passed_written = FALSE
    /\ calls = 0

IdleCall ==
    /\ op = "none"
    /\ arg = <<>>
    /\ ret = "none"
    /\ err = ""
    /\ ret_same = FALSE

Init == IdleLife /\ IdleCA /\ IdleCall

Next ==
    \/ \E nx0 \in -1..MaxNx, ny0 \in -1..MaxNy :
          /\ nx0 * ny0 <= MaxArea
          /\ Construct(nx0, ny0)
    \/ \E s \in Shapes : \E g \in Grids(s[1], s[2]) :
          \E d \in {<<-1, -1>>, <<0, 0>>, s} : ConstructGrid(d[1], d[2], s[1], s[2], g)
    \/ \E n \in 0..MaxNSteps : step(n)
    \/ \E s \in 0..MaxSeed : randomize(s)
    \/ get_grid
    \/ plot

Spec == Init /\ [][Next]_vars

----------------------------------------------------------------------------
(* steppers.py: five variants of one generation.  The caller's array is    *)
(* grid, of shape (nx, ny); each call records the values it was handed in  *)
(* arg and the values it returned in ret.                                  *)

\* for dx in [-1,0,1]: for dy in [-1,0,1]: the 9 pairs in loop order
LoopDXY == <<<<-1, -1>>, <<-1, 0>>, <<-1, 1>>,
             <<0, -1>>,  <<0, 0>>,  <<0, 1>>,
             <<1, -1>>,  <<1, 0>>,  <<1, 1>>>>

\* the neighbour count of stepper0 and stepper2 without the test that skips
\* the cell itself
loop_nnear_with_self(g, w, h, c) ==
    SumTo([i \in 1..9 |->
              g[<<(c[1] + LoopDXY[i][1]) % w, (c[2] + LoopDXY[i][2]) % h>>]], 9)

\* stepper0, stepper2: nnear += grid[(x+dx)%nx, (y+dy)%ny] unless dx == dy == 0
loop_nnear(g, w, h, c) ==
    SumTo([i \in 1..9 |->
              IF LoopDXY[i][1] # 0 \/ LoopDXY[i][2] # 0
              THEN g[<<(c[1] + LoopDXY[i][1]) % w, (c[2] + LoopDXY[i][2]) % h>>]
              ELSE 0], 9)

\* stepper1, stepper3: the sum over the 8 listed directions (dx, dy)
list_nnear(g, w, h, c) ==
    SumTo([d \in 1..8 |-> g[<<(c[1] + DX[d]) % w, (c[2] + DY[d]) % h>>]], 8)

stepper0(g, w, h) ==
    [c \in Cells(w, h) |->
        LET n == loop_nnear(g, w, h, c)
        IN  IF g[c] = 0
            THEN IF n = 3 THEN 1 ELSE g[c]
            ELSE IF n > 3 THEN 0 ELSE IF n < 2 THEN 0 ELSE g[c]]

stepper1(g, w, h) ==
    [c \in Cells(w, h) |->
        LET n == list_nnear(g, w, h, c)
        IN  IF n < 2 \/ n > 3 THEN 0 ELSE IF n = 3 THEN 1 ELSE g[c]]

stepper2(g, w, h) ==
    LET n  == [c \in Cells(w, h) |-> loop_nnear(g, w, h, c)]
        \* newgrid[(grid>0) & (nnear<2)] = 0
        g1 == [c \in Cells(w, h) |-> IF g[c] > 0 /\ n[c] < 2 THEN 0 ELSE g[c]]
        \* newgrid[(grid>0) & (nnear>3)] = 0
        g2 == [c \in Cells(w, h) |-> IF g[c] > 0 /\ n[c] > 3 THEN 0 ELSE g1[c]]
        \* newgrid[(grid==0) & (nnear==3)] = 1
    IN  [c \in Cells(w, h) |-> IF g[c] = 0 /\ n[c] = 3 THEN 1 ELSE g2[c]]

stepper3(g, w, h) ==
    LET n  == [c \in Cells(w, h) |-> list_nnear(g, w, h, c)]
        \* newgrid[nnear < 2] = 0
        g1 == [c \in Cells(w, h) |-> IF n[c] < 2 THEN 0 ELSE g[c]]
        \* newgrid[nnear > 3] = 0
        g2 == [c \in Cells(w, h) |-> IF n[c] > 3 THEN 0 ELSE g1[c]]
        \* newgrid[nnear==3] = 1
    IN  [c \in Cells(w, h) |-> IF n[c] = 3 THEN 1 ELSE g2[c]]

\* stepper4 computes xx, yy as __init__step does and writes into grid itself
stepper4(g, w, h) ==
    LET nn == nnear(g, init_step_x(w, h), init_step_y(w, h))
    IN  revive(kill(g, nn), nn)

StepperNames == {"stepper0", "stepper1", "stepper2", "stepper3", "stepper4"}

\* newgrid = stepperK(grid): K in 0..3 work on newgrid = grid.copy()
call_copying(name, result) ==
    /\ op' = name
    /\ ret_same' = FALSE
    /\ arg' = grid
    /\ err' = ""
    /\ ret' = result
    /\ UNCHANGED <<lifeVars, caVars, histVars>>

call_stepper0 == call_copying("stepper0", stepper0(grid, nx, ny))

call_stepper1 == call_copying("stepper1", stepper1(grid, nx, ny))

call_stepper2 == call_copying("stepper2", stepper2(grid, nx, ny))

call_stepper3 == call_copying("stepper3", stepper3(grid, nx, ny))

\* stepper4 returns the array it was handed, updated in place
call_stepper4 ==
    /\ op' = "stepper4"
    /\ ret_same' = TRUE
    /\ arg' = grid
    /\ err' = ""
    /\ ret' = stepper4(grid, nx, ny)
    /\ grid' = ret'
    /\ passed_written' = (passed_written \/ (shares /\ grid' # grid))
    /\ UNCHANGED <<life, nx, ny, step_num, step_x, step_y, shares, caVars, histVars>>

\* the caller holds any 0/1 array of a bounded shape
InitStep ==
    /\ life = "none"
    /\ \E s \in Shapes :
          /\ nx = s[1]
          /\ ny = s[2]
          /\ grid \in Grids(s[1], s[2])
    /\ step_num = 0
    /\ step_x = <<>>
    /\ step_y = <<>>
    /\ shares = FALSE
    /\ passed_written = FALSE
    /\ calls = 0
    /\ IdleCA
    /\ IdleCall

NextStep ==
    \/ call_stepper0
    \/ call_stepper1
    \/ call_stepper2
    \/ call_stepper3
    \/ call_stepper4

SpecStep == InitStep /\ [][NextStep]_vars

\* the caller's array, of values grid, handed to the steppers, then to
\* GameOfLife(grid=...), whose grid (get_grid()) the caller may hand on
NextArr ==
    \/ NextStep
    \/ ConstructGrid(nx, ny, nx, ny, grid)
    \/ \E n \in 0..MaxNSteps : step(n)
    \/ get_grid

SpecArr == InitStep /\ [][NextArr]_vars

----------------------------------------------------------------------------
(* random_ca.py: binaryRep.  A number k + h/2 (h = 0 or 1) is the pair     *)
(* <<k, h>>, so that a non-integral number such as 3.5 = <<3, 1>> can be   *)
(* passed.  A digit string and a digit array are both sequences of digits, *)
(* first digit first.                                                      *)

RECURSIVE bin(_)
\* bin(num)[2:] : the binary digits of an integer num >= 0, "0" for 0
bin(n) == IF n < 2 THEN <<n>> ELSE bin(n \div 2) \o <<n % 2>>

RECURSIVE zfill(_, _)
\* str.zfill(width): zeros on the left up to width, nothing cut off
zfill(digits, width) ==
    IF Len(digits) >= width THEN digits ELSE zfill(<<0>> \o digits, width)

\* the three assert statements of binaryRep
binaryRep_asserts(num, num_bits) ==
    /\ num[1] >= 0                                \* assert num >= 0
    /\ num[2] = 0                                 \* assert num%1 == 0
    /\ 2 * num[1] + num[2] <= 2 * (2 ^ num_bits - 1)  \* assert num <= 2**num_bits - 1

\* binaryRep(num, num_bits): "AssertionError" or the digits
binaryRep(num, num_bits) ==
    IF binaryRep_asserts(num, num_bits)
    THEN zfill(bin(num[1]), num_bits)
    ELSE "AssertionError"

\* binaryRep(num, num_bits) called on its own
binaryRep_call(num, num_bits) ==
    /\ op' = "binaryRep"
    /\ ret_same' = FALSE
    /\ arg' = <<num, num_bits>>
    /\ ret' = IF binaryRep_asserts(num, num_bits)
              THEN binaryRep(num, num_bits) ELSE "raised"
    /\ err' = IF binaryRep_asserts(num, num_bits) THEN "" ELSE "AssertionError"
    /\ UNCHANGED <<lifeVars, caVars, histVars>>

\* the caller holds a number -1, -1/2, 0, 1/2, ... and a bit width
InitBin ==
    /\ IdleLife
    /\ IdleCA
    /\ op = "none"
    /\ arg \in ((-1..MaxNum) \X {0, 1}) \X (0..MaxBits)
    /\ ret = "none"
    /\ err = ""
    /\ ret_same = FALSE

NextBin == binaryRep_call(arg[1], arg[2])

SpecBin == InitBin /\ [][NextBin]_vars

----------------------------------------------------------------------------
(* random_ca.py: cellularAutomaton *)

\* truple of rules1, in list order
truple == <<<<1, 1, 1>>, <<1, 1, 0>>, <<1, 0, 1>>, <<1, 0, 0>>,
            <<0, 1, 1>>, <<0, 1, 0>>, <<0, 0, 1>>, <<0, 0, 0>>>>

\* rules1 pairing the triples with the digits of the rule last digit first
rules1_reversed(rule, a, b, c) ==
    LET ruleset == binaryRep(rule, 8)
        indx    == CHOOSE i \in 1..8 : truple[i] = <<a, b, c>>
    IN  ruleset[9 - indx]

\* rules1(a, b, c) for a rule number binaryRep accepts:
\* lookup_dict[truple[indx]] = ruleset[indx]; return lookup_dict[a,b,c]
rules1(rule, a, b, c) ==
    LET ruleset == binaryRep(rule, 8)
        indx    == CHOOSE i \in 1..8 : truple[i] = <<a, b, c>>
    IN  ruleset[indx]

\* cellular_step raises iff rules1 is called (an interior cell exists) and
\* binaryRep rejects the rule number
cellular_step_raises(n, rule) ==
    n >= 3 /\ ~binaryRep_asserts(rule, 8)

\* newcells of cellular_step: zeros, interior cells 1..ncells-2 set by rules1
cellular_step(c, n, rule) ==
    [i \in 0..(n - 1) |->
        IF 1 <= i /\ i <= n - 2
        THEN rules1(rule, c[i - 1], c[i], c[i + 1])
        ELSE 0]

RECURSIVE shift_rows(_, _, _)
\* for i in range(np.size(self.seq,0) - 1): self.seq[i] = self.seq[i+1]
\* (rows i.. still to be written, of rows rows)
shift_rows(sq, i, rows) ==
    IF i >= rows - 1 THEN sq
    ELSE shift_rows([sq EXCEPT ![i] = sq[i + 1]], i + 1, rows)

RECURSIVE steps_loop(_, _, _)
\* for i in range(nsteps) of steps, on st = [cells, seq, gens, err]
steps_loop(st, n, rule) ==
    IF n <= 0 THEN st
    ELSE LET rows    == Cardinality(DOMAIN st.seq)
             len     == Cardinality(DOMAIN st.cells)
             shifted == shift_rows(st.seq, 0, rows)
         IN  IF cellular_step_raises(len, rule)
             THEN [st EXCEPT !.seq = shifted, !.err = "AssertionError"]
             ELSE LET new == cellular_step(st.cells, len, rule)
                  IN  steps_loop([cells |-> new,
                                  seq   |-> [shifted EXCEPT ![rows - 1] = new],
                                  gens  |-> Append(st.gens, new),
                                  err   |-> ""], n - 1, rule)

\* rule numbers handed to the constructor: -1, 3.5, 256 and some valid ones
RuleInputs ==
    {<<-1, 0>>, <<3, 1>>, <<256, 0>>,
     <<0, 0>>, <<30, 0>>, <<90, 0>>, <<110, 0>>, <<184, 0>>, <<255, 0>>}

\* cellularAutomaton(nc, ns, rule), random_cells drawing c0
ConstructCA(nc, ns, rule, c0) ==
    /\ ca = "none"
    /\ op' = "cellularAutomaton"
    /\ ret_same' = FALSE
    /\ arg' = <<nc, ns, rule>>
    /\ IF nc < 0 \/ ns <= 0
       THEN \* nc < 0: np.random.choice raises ValueError; ns < 0: np.ndarray
            \* raises ValueError; ns = 0: self.seq[-1] raises IndexError
            /\ ca' = "failed"
            /\ err' = IF nc >= 0 /\ ns = 0 THEN "IndexError" ELSE "ValueError"
            /\ ret' = "raised"
            /\ UNCHANGED <<ncells, nsteps, rule_num, cells, seq, gens>>
       ELSE /\ ca' = "live"
            /\ err' = ""
            /\ ret' = "self"
            /\ ncells' = nc
            /\ nsteps' = ns
            /\ rule_num' = rule
            /\ cells' = c0
            /\ seq' = [r \in 0..(ns - 1) |->
                          IF r = ns - 1 THEN c0 ELSE [i \in 0..(nc - 1) |-> 0]]
            /\ gens' = <<c0>>
    /\ UNCHANGED <<lifeVars, calls>>

\* steps(n)
steps(n) ==
    /\ ca = "live"
    /\ Len(gens) <= MaxGens
    /\ LET st == steps_loop([cells |-> cells, seq |-> seq, gens |-> gens,
                             err |-> ""], n, rule_num)
       IN  /\ cells' = st.cells
           /\ seq' = st.seq
           /\ gens' = st.gens
           /\ err' = st.err
           /\ ret' = IF st.err = "" THEN "self" ELSE "raised"
    /\ op' = "steps"
    /\ ret_same' = FALSE
    /\ arg' = n
    /\ UNCHANGED <<ca, ncells, nsteps, rule_num, lifeVars, calls>>

\* cellular_step() that returns newcells without storing it
cellular_step_call_pure ==
    /\ ca = "live"
    /\ Len(gens) <= MaxGens
    /\ op' = "cellular_step"
    /\ ret_same' = FALSE
    /\ arg' = cells
    /\ IF cellular_step_raises(ncells, rule_num)
       THEN /\ err' = "AssertionError"
            /\ ret' = "raised"
            /\ UNCHANGED <<cells, gens>>
       ELSE /\ err' = ""
            /\ ret' = cellular_step(cells, ncells, rule_num)
            /\ UNCHANGED <<cells, gens>>
    /\ UNCHANGED <<ca, ncells, nsteps, rule_num, seq, lifeVars, calls>>

\* cellular_step() called by the user of the object
cellular_step_call ==
    /\ ca = "live"
    /\ Len(gens) <= MaxGens
    /\ op' = "cellular_step"
    /\ ret_same' = FALSE
    /\ arg' = cells
    /\ IF cellular_step_raises(ncells, rule_num)
       THEN /\ err' = "AssertionError"
            /\ ret' = "raised"
            /\ UNCHANGED <<cells, gens>>
       ELSE /\ err' = ""
            /\ cells' = cellular_step(cells, ncells, rule_num)
            /\ ret' = cells'
            /\ gens' = Append(gens, cells')
    /\ UNCHANGED <<ca, ncells, nsteps, rule_num, seq, lifeVars, calls>>

\* plot(): draws self.seq, changes nothing
plot_ca ==
    /\ ca = "live"
    /\ op' = "plot"
    /\ ret_same' = FALSE
    /\ arg' = <<>>
    /\ err' = ""
    /\ ret' = "self"
    /\ UNCHANGED <<lifeVars, caVars, histVars>>

InitCA == IdleLife /\ IdleCA /\ IdleCall

\* construction, steps and plot only
NextSeq ==
    \/ \E nc \in -1..MaxCells, ns \in -1..MaxRows, rule \in RuleInputs :
          \E c0 \in [0..(nc - 1) -> {0, 1}] : ConstructCA(nc, ns, rule, c0)
    \/ \E n \in 0..MaxNSteps : steps(n)
    \/ plot_ca

SpecSeq == InitCA /\ [][NextSeq]_vars

NextCA ==
    \/ NextSeq
    \/ cellular_step_call

SpecCA == InitCA /\ [][NextCA]_vars

\* a live object of any size with any rule number in 0..255, one-row history
InitRule ==
    /\ IdleLife
    /\ IdleCall
    /\ ca = "live"
    /\ ncells \in 0..MaxCells
    /\ nsteps = 1
    /\ rule_num \in (0..255) \X {0}
    /\ cells \in [0..(ncells - 1) -> {0, 1}]
    /\ seq = [r \in {0} |-> cells]
    /\ gens = <<>>

SpecRule == InitRule /\ [][cellular_step_call]_vars

----------------------------------------------------------------------------
(* Conway's rule, stated cell by cell on the previous generation *)

Offsets == {d \in {-1, 0, 1} \X {-1, 0, 1} : d # <<0, 0>>}

\* live cells among the 8 toroidal neighbours of c, one per direction
ConwayCount(g, w, h, c) ==
    Cardinality({d \in Offsets : g[<<(c[1] + d[1]) % w, (c[2] + d[2]) % h>>] = 1})

Conway(g, w, h) ==
    [c \in Cells(w, h) |->
        LET k == ConwayCount(g, w, h, c)
        IN  IF k < 2 \/ k > 3 THEN 0 ELSE IF k = 3 THEN 1 ELSE g[c]]

RECURSIVE ConwayN(_, _, _, _)
ConwayN(g, w, h, n) == IF n = 0 THEN g ELSE ConwayN(Conway(g, w, h), w, h, n - 1)

\* C1: step(n) leaves the grid equal to n applications of Conway's rule, each
\* generation computed cell by cell from the previous generation only.
C1_StepIsConwayN ==
    [][op' = "step" => grid' = ConwayN(grid, nx, ny, arg')]_vars

\* C1 witness: step(n), n >= 2, has run on a grid of at least 3 x 3 cells and
\* left live cells.
C1_Witness ==
    /\ op = "step"
    /\ arg >= 2
    /\ nx >= 3
    /\ ny >= 3
    /\ \E c \in Cells(nx, ny) : grid[c] = 1
    /\ \E c \in Cells(nx, ny) : grid[c] = 0

\* C6: constructing a Grid Automaton with width <= 0 or height <= 0 and no
\* initial grid fails, so no such object exists.
C6_NonPositiveDimensionFails ==
    (op = "GameOfLife" /\ arg[3] = "None" /\ (arg[1] <= 0 \/ arg[2] <= 0))
        => life = "failed"

\* C9: the step counter equals the number of step() calls made, whatever the
\* n of each call; it starts at 0 and no other operation changes it.
C9_StepCounterCountsCalls ==
    life = "live" => step_num = calls

\* C9 witness: at least two step calls, the last one not a step(1), and
\* the counter equals the number of calls.
C9_Witness ==
    /\ life = "live"
    /\ op = "step"
    /\ arg # 1
    /\ calls >= 2
    /\ step_num = calls

\* C2: on every 0/1 grid the five steppers return the same grid, cell for
\* cell, and that grid is the one GameOfLife.step(1) computes from the same
\* input.
C2_SteppersAgree ==
    op \in StepperNames =>
        /\ ret = step_loop(arg, init_step_x(nx, ny), init_step_y(nx, ny), 1)
        /\ stepper0(arg, nx, ny) = ret
        /\ stepper1(arg, nx, ny) = ret
        /\ stepper2(arg, nx, ny) = ret
        /\ stepper3(arg, nx, ny) = ret
        /\ stepper4(arg, nx, ny) = ret

\* C2 witness: a stepper has changed a grid of width 2, where wrapped
\* neighbours coincide, and left a live cell.
C2_Witness ==
    /\ op = "stepper0"
    /\ nx = 2
    /\ ret # arg
    /\ \E c \in Cells(nx, ny) : ret[c] = 1

\* bit number b of r, bit 0 the least significant
Bit(r, b) == (r \div (2 ^ b)) % 2

\* the generation the rule table of rule number r gives from generation c of
\* n cells: end cells 0, interior cell i the bit 4*c[i-1] + 2*c[i] + c[i+1] of r
RuleGen(c, n, r) ==
    [i \in 0..(n - 1) |->
        IF 1 <= i /\ i <= n - 2
        THEN Bit(r, 4 * c[i - 1] + 2 * c[i] + c[i + 1])
        ELSE 0]

ValidRule(rule) == rule[2] = 0 /\ 0 <= rule[1] /\ rule[1] <= 255

\* C3: for a rule number r in 0..255, cellular_step on generation c returns g
\* with g[0] = g[ncells-1] = 0 and, for each interior i, g[i] = bit
\* 4*c[i-1] + 2*c[i] + c[i+1] of r, computed from c alone.
C3_CellularStepIsRule ==
    (ca = "live" /\ op = "cellular_step" /\ ValidRule(rule_num)) =>
        /\ err = ""
        /\ DOMAIN ret = 0..(ncells - 1)
        /\ ncells >= 1 => (ret[0] = 0 /\ ret[ncells - 1] = 0)
        /\ \A i \in 1..(ncells - 2) :
              ret[i] = Bit(rule_num[1], 4 * arg[i - 1] + 2 * arg[i] + arg[i + 1])

\* C3 witness: rule 110 has turned an interior cell on next to a live end cell,
\* which the step turned off.
C3_Witness ==
    /\ ca = "live"
    /\ op = "cellular_step"
    /\ rule_num = <<110, 0>>
    /\ ncells >= 4
    /\ arg[0] = 1
    /\ ret[0] = 0
    /\ ret[1] = 1
    /\ ret[2] = 0

\* C4: history always has nsteps rows of ncells cells, its last row is the
\* current generation, and after k generations its rows are the most recent
\* min(k+1, nsteps) generations in order, preceded by all-zero rows.
C4_SlidingWindow ==
    ca = "live" =>
        LET k == Len(gens) - 1
        IN  /\ DOMAIN seq = 0..(nsteps - 1)
            /\ \A r \in DOMAIN seq : DOMAIN seq[r] = 0..(ncells - 1)
            /\ seq[nsteps - 1] = cells
            /\ \A r \in 0..(nsteps - 1) :
                  LET j == k - (nsteps - 1 - r)
                  IN  seq[r] = IF j >= 0 THEN gens[j + 1]
                               ELSE [i \in 0..(ncells - 1) |-> 0]

\* C5: constructing a Line Automaton with a rule number outside 0..255 or
\* non-integral fails at construction time.
C5_InvalidRuleFails ==
    (op = "cellularAutomaton" /\ ~ValidRule(arg[3])) => ca = "failed"

\* C7: a steps call that raises leaves history and the current generation as
\* they were before the call.
C7_NoPartialMutation ==
    [][(op' = "steps" /\ err' # "") => (seq' = seq /\ cells' = cells)]_vars

\* C8 as claimed: cellular_step changes no state of the automaton, and a second
\* consecutive call returns the same generation as the first.
C8_CellularStepPure ==
    [][op' = "cellular_step" =>
          /\ UNCHANGED caVars
          /\ (op = "cellular_step" /\ err = "" /\ err' = "") => ret' = ret]_vars

\* C8 amended: the generation cellular_step returns is determined by the
\* current generation and the rule number alone, and the call stores it as the
\* current generation, leaving history and the other fields unchanged; a
\* second consecutive call returns the rule applied to the first call's result.
\* A call that raises changes nothing.
C8_CellularStepAdvances ==
    [][op' = "cellular_step" =>
          /\ UNCHANGED <<ca, ncells, nsteps, rule_num, seq>>
          /\ err' # "" => UNCHANGED cells
          /\ err' = "" =>
                /\ ret' = RuleGen(cells, ncells, rule_num[1])
                /\ cells' = ret'
                /\ (op = "cellular_step" /\ err = "") =>
                      ret' = RuleGen(ret, ncells, rule_num[1])]_vars

\* C8 witness: a direct call has returned a generation different from the one
\* it read, and the current generation is now that result while the last row
\* of history still holds an older generation.
C8_Witness ==
    /\ ca = "live"
    /\ op = "cellular_step"
    /\ err = ""
    /\ ret # arg
    /\ cells = ret
    /\ seq[nsteps - 1] # cells

RECURSIVE Base2(_)
\* the digits read as a base-2 integer, first digit most significant
Base2(digits) ==
    IF digits = <<>> THEN 0
    ELSE 2 * Base2(SubSeq(digits, 1, Len(digits) - 1)) + digits[Len(digits)]

\* C10: for every bit width w and integer 0 <= r <= 2^w - 1, binaryRep(r, w)
\* returns exactly w digits, each 0 or 1, most significant first, which read
\* as a base-2 integer give r.
C10_RoundTrip ==
    (/\ op = "binaryRep"
     /\ arg[1][2] = 0
     /\ 0 <= arg[1][1]
     /\ arg[1][1] <= 2 ^ arg[2] - 1) =>
        /\ err = ""
        /\ Len(ret) = arg[2]
        /\ \A i \in 1..Len(ret) : ret[i] \in {0, 1}
        /\ Base2(ret) = arg[1][1]

CopyingSteppers == {"stepper0", "stepper1", "stepper2", "stepper3"}

\* C11 as claimed: after any of the five steppers returns, the array handed in
\* holds its pre-call values and the array returned is another array; no step
\* call changes the array handed to the GameOfLife constructor.
C11_StepsLeaveInputAlone ==
    [][/\ op' \in StepperNames => (grid' = grid /\ ~ret_same')
       /\ op' = "step" => passed_written' = passed_written]_vars

\* C11 amended: stepper0..stepper3 leave the array handed in as it was and
\* return another array; stepper4 writes the new generation into the array
\* handed in and returns that very array; no step call of GameOfLife changes
\* the array handed to its constructor, and after it self.grid is no longer
\* that array.
C11_OnlyStepper4Reuses ==
    [][/\ op' \in CopyingSteppers => (grid' = grid /\ ~ret_same')
       /\ op' = "stepper4" => (ret_same' /\ grid' = ret')
       /\ op' = "step" => (passed_written' = passed_written /\ ~shares')]_vars

\* C11 witness: a GameOfLife built on the caller's array has stepped to a
\* different generation, and the caller's array is unchanged and no longer
\* the object's grid.
C11_Witness ==
    /\ life = "live"
    /\ op = "step"
    /\ arg >= 1
    /\ ~shares
    /\ ~passed_written
    /\ \E c \in Cells(nx, ny) : grid[c] = 1
    /\ grid # Conway(grid, nx, ny)

=============================================================================
